---- MODULE Spec2Model ----
(***************************************************************************)
(* BubbleMaker: the hashed Voronoi noise field, the mesh graph (welding,   *)
(* adjacency), the smoothness diffusion and the displacement handler.      *)
(*                                                                         *)
(* Numbers.  Python floats are modelled in fixed point: a value v is the   *)
(* integer v * S (S = 10^4), a mesh coordinate c is the integer c * CU     *)
(* (CU = 10^5, one digit finer than the 4 decimals welding rounds to).     *)
(* Every product is divided back by S right away so that all              *)
(* intermediate results stay inside TLC's 32-bit integers.                 *)
(***************************************************************************)
EXTENDS Integers, Sequences, FiniteSets, TLC

S  == 100 * 100          \* 1.0 as a value
CU == 10 * S             \* 1.0 as a mesh coordinate

Mul(a, b) == (a * b) \div S
Sq(d) == (d * d) \div S
Max(a, b) == IF a >= b THEN a ELSE b
Min(a, b) == IF a <= b THEN a ELSE b
Abs(a) == IF a >= 0 THEN a ELSE -a

(***************************************************************************)
(* The Mersenne Twister of Python's random module, as far as the program   *)
(* uses it: for every seed the program passes to random.seed, row          *)
(* <<seed, u1, .., u5>> holds floor(u * S) of the first five                *)
(* random.random() results after random.seed(seed).  The rows cover the    *)
(* lattice cells -4..4 on each axis.                                       *)
(***************************************************************************)
MTRows ==
  <<
     <<0,8444,7579,4205,2589,5112>>, <<1660745,5640,3108,5277,4853,4221>>, <<1660747,1559,8873,5009,8679,4531>>,
     <<3321490,548,7804,3308,4688,5783>>, <<3321494,7452,1860,3124,3112,2157>>, <<5906433,5724,5665,1813,325,7475>>,
     <<5906435,9903,6442,6604,2111,7968>>, <<5906437,2639,8784,8904,2265,3235>>, <<5906439,3756,7273,6861,126,6129>>,
     <<6618571,58,6710,9818,4137,1854>>, <<6618573,1120,1688,4736,8618,6112>>, <<10423274,7371,4359,1801,6692,9401>>,
     <<11330543,2892,3679,4158,3426,630>>, <<16512545,3074,2850,1057,2108,190>>, <<16512551,949,4626,9595,8298,7838>>,
     <<17428083,6527,5036,516,5056,4197>>, <<17428085,6877,4386,3972,278,9557>>, <<19349663,9199,9399,8127,7426,3321>>,
     <<20846548,3515,2227,4554,4377,7778>>, <<26714892,1373,19,502,5058,5809>>, <<26714894,9008,2627,9941,8617,2430>>,
     <<28855157,5229,5686,7416,6598,8984>>, <<38524425,2784,9230,6293,7538,5643>>, <<38524427,1411,4380,2920,1473,3036>>,
     <<38699326,2475,5006,5596,5066,1587>>, <<41693096,7966,7016,1037,5006,4544>>, <<45946337,8132,9304,1537,3158,3043>>,
     <<45946339,3154,5187,7323,2931,156>>, <<45946341,45,4497,8457,2902,9425>>, <<45946343,5504,4490,7415,5619,8554>>,
     <<47286996,2596,8112,2910,556,1884>>, <<47286998,8707,6477,8901,7113,588>>, <<50225837,2378,4397,6268,5258,2107>>,
     <<56323889,4459,292,3701,6487,4491>>, <<56323895,7812,6079,9849,5159,8067>>, <<57710314,3903,486,9101,9619,3925>>,
     <<58048989,2585,5066,9798,1891,2045>>, <<64561714,8408,4227,1139,8381,9718>>, <<65718839,431,8236,9617,9007,861>>,
     <<67242384,4689,2484,2597,3299,3230>>, <<67242390,7167,3658,5063,2330,9712>>, <<73856093,5706,2625,3474,7207,8990>>,
     <<74356385,2310,70,6615,2783,8562>>, <<74356387,4419,8897,9806,4810,4455>>, <<77398652,7754,9294,226,5453,2323>>,
     <<80159353,6353,684,9874,1615,7529>>, <<80159355,6155,3924,2049,4483,4209>>, <<83492791,1276,2762,4078,6566,5049>>,
     <<88192194,1985,8351,6560,2646,6535>>, <<89511488,4866,5719,1838,6509,4589>>, <<89511490,7975,1842,9800,4264,4470>>,
     <<94573992,6615,4750,4394,9323,6530>>, <<94573996,5125,9216,7832,3877,1168>>, <<98484008,9892,2695,9514,4694,5185>>,
     <<98591460,4766,4175,3023,489,907>>, <<98591462,8146,5205,9529,4121,4920>>, <<102766493,9862,4081,7238,4048,6082>>,
     <<102766495,5423,1352,442,2462,8012>>, <<103314785,5228,2081,2586,9852,521>>, <<103314787,568,6693,6833,777,934>>,
     <<109683525,3109,2163,1075,5532,9238>>, <<109683527,346,9622,9736,9891,1300>>, <<112688777,7362,2726,3340,3046,781>>,
     <<112688779,3092,5010,6617,2823,5468>>, <<115420628,3477,888,3138,5152,3209>>, <<117921536,2753,3855,9722,2290,8686>>,
     <<117921538,9923,8685,9659,9649,8412>>, <<118699392,86,8027,9949,1253,9436>>, <<121905224,9851,7063,1144,2111,4509>>,
     <<121905230,7262,8257,3185,7689,188>>, <<126631530,8757,4726,2020,4788,1030>>, <<129164196,5328,424,140,6620,9816>>,
     <<129164198,3020,2629,3481,8209,5518>>, <<145298801,6450,30,5549,2302,3224>>, <<145298803,667,5422,1223,288,6997>>,
     <<145298805,6083,1962,3434,6492,1530>>, <<145298807,4272,2187,49,7036,7226>>, <<147163716,3642,1607,992,759,8548>>,
     <<147163718,1537,2658,6674,7938,4271>>, <<147712186,2590,6882,6631,23,8032>>, <<148160497,5179,1297,6558,9933,2900>>,
     <<148160499,8085,8373,2807,108,7542>>, <<149578303,665,2770,483,8929,3687>>, <<151521609,910,1164,4073,7834,9475>>,
     <<151521611,9342,3907,9915,9604,2208>>, <<151521613,125,2152,7671,2596,5998>>, <<151521615,637,7080,4224,2163,9456>>,
     <<162127723,9394,8365,9533,9675,6084>>, <<162127725,5806,3035,83,4991,2111>>, <<164438688,7081,5641,3573,6229,649>>,
     <<166373413,7584,9627,8154,2294,8102>>, <<166373415,87,7644,6813,1196,1925>>, <<166985582,4494,2239,4703,484,6921>>,
     <<167692965,6103,9632,3983,8909,732>>, <<175177049,6300,681,4686,7552,5923>>, <<175177055,6682,2114,3022,6030,9455>>,
     <<176384388,6079,2470,524,7401,6667>>, <<176570033,595,1165,4980,859,1285>>, <<176570035,9416,5068,4727,9128,9804>>,
     <<176884600,8466,61,7884,4991,3547>>, <<179889021,7501,6622,510,9385,2243>>, <<193176476,5049,7952,8038,4373,5168>>,
     <<193176478,5045,5090,7402,9586,4776>>, <<195840999,6431,3059,1443,1526,8278>>, <<196618597,623,6653,259,3971,6297>>,
     <<196618599,3776,1440,7796,4197,4671>>, <<196968016,2021,5939,2206,8300,5287>>, <<202612104,5202,727,1820,8091,2583>>,
     <<204740365,5022,9470,8849,6890,3372>>, <<204740367,5442,3417,1306,6476,2277>>, <<206629570,1689,7309,4360,5100,133>>,
     <<206629574,1107,1797,7982,7447,3182>>, <<212041241,3484,4638,8564,675,9798>>, <<212041243,9867,5530,640,9409,8518>>,
     <<213011372,2131,4153,6440,8526,4893>>, <<213011374,4662,1086,5963,6423,9172>>, <<219371408,9883,5062,5961,2181,4010>>,
     <<219371410,8756,6200,5780,5247,4346>>, <<221568279,1342,8007,5344,8540,5401>>, <<223355098,2224,1122,2453,8164,1695>>,
     <<223355100,9268,7725,4505,8097,8360>>, <<225377554,5065,4563,5939,8905,430>>, <<225377558,7591,6623,5629,1952,4429>>,
     <<227871537,6096,7085,4304,5611,4853>>, <<227871539,9618,4391,1934,9047,914>>, <<228081400,5499,5316,1044,1135,2752>>,
     <<236325122,2843,5395,8136,4973,6954>>, <<236325124,4650,7329,8570,1396,3067>>, <<239148234,7353,5414,1765,1156,1909>>,
     <<242914865,1196,6999,9451,9111,7962>>, <<242914867,5228,1242,3615,7150,9586>>, <<249613036,9211,7051,480,553,9462>>,
     <<249613038,8825,3476,568,253,3706>>, <<250478373,7121,5217,4773,1251,2046>>, <<255973072,6813,1122,37,1772,2711>>,
     <<255973074,5520,269,5387,6692,5297>>, <<259677225,8148,7548,9978,6716,6613>>, <<259677227,446,846,7022,8691,4825>>,
     <<264945594,4078,5118,2139,9278,4107>>, <<266045965,549,8350,1114,4014,4317>>, <<266045967,6784,2483,1811,4147,2802>>,
     <<278019841,8389,6729,1473,2784,7942>>, <<278019847,641,7965,1703,6069,1903>>, <<280793579,9514,8349,6564,7261,8925>>,
     <<280793581,3172,2329,1277,1284,4806>>, <<295424372,2800,6506,3020,8410,3172>>, <<296320994,8744,9584,4542,3579,4076>>,
     <<296320998,9875,4020,5941,7087,9412>>, <<301935801,2482,4411,5677,3379,2037>>, <<301935807,284,8654,4209,8041,7474>>,
     <<314621507,824,7208,9671,1269,5817>>, <<314621509,7010,8353,1185,2727,9205>>, <<317591721,5764,1463,5333,3506,94>>,
     <<317591727,6159,5932,7843,2666,212>>, <<320604411,7334,7742,3029,2094,3887>>, <<320604413,5028,5339,3810,2177,9051>>,
     <<332746826,5473,5233,3241,9754,8366>>, <<332746830,8185,7607,1222,2457,3264>>, <<333971164,9152,8234,6684,1288,5433>>,
     <<340094554,3869,4927,6875,7177,4053>>, <<340094556,1935,9075,5872,9380,120>>, <<351587162,1963,8383,7124,9707,9141>>,
     <<351587164,9806,3172,1179,3320,3874>>, <<352768776,8152,5392,7931,1073,5684>>, <<358756035,6958,1488,8235,5218,7072>>,
     <<358756037,4219,8183,5781,108,6536>>, <<365923257,4514,2507,4868,2031,3955>>, <<365923259,8718,3912,4658,1030,4850>>,
     <<365923261,2059,8061,51,6176,9983>>, <<365923263,5953,8023,7346,9246,6128>>, <<370667288,5580,4618,7339,1764,3062>>,
     <<370667294,1565,9109,9940,7640,6579>>, <<379996696,4486,7369,2458,2277,9898>>, <<379996702,8409,5788,4949,5697,3041>>,
     <<388804601,5384,4340,5400,7666,977>>, <<388804603,6206,326,6458,4784,8240>>, <<388804605,9730,5923,5676,2001,1061>>,
     <<388804607,8567,6561,9897,7694,7432>>, <<393936032,90,8891,6627,4897,7396>>, <<394332801,8645,7632,4234,4137,3054>>,
     <<394332807,3284,4210,2694,7588,7659>>, <<408934329,8371,1031,715,6863,8528>>, <<408934331,7211,9428,8999,8966,9480>>,
     <<408934333,7528,7798,3464,5340,5483>>, <<408934335,2941,6734,6334,1818,8703>>, <<409480730,539,292,7328,4019,1745>>,
     <<409480734,212,7610,1659,6632,7549>>, <<424636033,403,4496,940,4122,5700>>, <<424636035,6509,8182,7242,906,7245>>,
     <<424636037,1093,5185,5637,8066,9249>>, <<424636039,8275,2173,4474,3814,9432>>, <<426022744,7588,1451,2031,5428,7882>>,
     <<426022748,2667,9023,2744,4314,5771>>, <<437081849,9756,4991,9302,4884,7123>>, <<437081851,3477,5376,5118,3701,4768>>,
     <<437081853,4350,1372,4120,269,3700>>, <<437081855,7765,4058,8634,3997,1786>>, <<438742816,5973,255,9357,703,96>>,
     <<438742820,7452,6567,7350,7248,5712>>, <<441328049,5018,9844,4005,9447,3677>>, <<441328055,8024,5550,9557,2389,8043>>,
     <<454946753,3206,2825,7734,6840,6971>>, <<454946755,8335,867,860,7527,8007>>, <<454946757,3000,2149,6513,8443,4952>>,
     <<454946759,7458,8691,6872,2630,3275>>, <<455743074,1876,2544,7888,1315,4573>>, <<455743078,2007,4341,9707,1244,7021>>,
     <<468397099,171,8020,6094,2572,1656>>, <<468397101,4875,3572,4410,7763,1732>>, <<470019978,6057,7887,4814,1882,5120>>,
     <<470019980,9177,3409,2234,4288,1240>>, <<480092913,4150,3641,4588,1196,2778>>, <<480092915,8342,8911,9372,5381,157>>,
     <<480092917,8169,451,8901,6596,9586>>, <<480092919,6208,8129,4226,6146,3479>>, <<485829730,9165,6549,3016,9953,3135>>,
     <<485829734,1784,116,1596,2548,9712>>, <<490254185,3661,8286,4123,6870,6278>>, <<490254187,7578,7097,8317,4632,1476>>,
     <<490254189,6752,1639,4446,7970,9586>>, <<490254191,9491,1170,6954,938,1525>>, <<497476112,1087,5189,6044,232,4410>>,
     <<497476118,6978,715,7460,2536,5968>>, <<508653256,7111,2201,7330,5005,2598>>, <<508653262,4826,9051,909,8966,3312>>,
     <<517153739,6493,7396,2018,5586,9534>>, <<517153741,1618,4418,9143,7136,5446>>, <<527838801,1161,137,6901,721,4352>>,
     <<527838807,6702,5571,1651,3853,6047>>, <<532091930,2215,6945,9634,207,7259>>, <<532091934,7432,6460,9546,4808,1004>>,
     <<536109906,4490,8889,5145,6214,7068>>, <<536109908,7414,8744,7375,1896,7645>>, <<1611373738,1468,957,9914,490,528>>,
     <<1611373740,931,9992,4318,8765,4466>>, <<1615391714,5581,8699,4150,7837,6346>>, <<1615391718,6270,5335,1110,4747,8220>>,
     <<1619644841,8375,4699,4433,4194,2944>>, <<1619644847,7729,6480,55,1672,9049>>, <<1630329907,1223,2578,843,7014,6863>>,
     <<1630329909,2238,6911,5005,1379,5462>>, <<1638830384,7163,6119,9629,8229,5896>>, <<1638830390,5222,5464,3096,6783,8231>>,
     <<1650007528,7445,7168,6190,369,6665>>, <<1650007534,6242,483,9734,1284,1057>>, <<1657229457,7829,9777,1008,4829,3574>>,
     <<1657229459,2329,4500,6058,4546,468>>, <<1657229461,8486,4954,7325,9044,1420>>, <<1657229463,7245,304,5963,7473,8111>>,
     <<1661653914,1406,2585,5395,3194,4446>>, <<1661653918,2679,1567,1522,1260,1887>>, <<1667390729,1913,3714,2890,3050,4559>>,
     <<1667390731,9709,5425,3904,6070,9999>>, <<1667390733,456,6361,9016,7749,4581>>, <<1667390735,4417,4375,4242,311,3147>>,
     <<1677463666,3264,1274,2563,1857,5607>>, <<1677463668,5894,9596,5280,8134,5312>>, <<1679086547,5394,9777,3725,6232,9504>>,
     <<1679086549,2273,324,5035,8366,1203>>, <<1691740570,669,1877,2128,9790,8556>>, <<1691740574,2094,7459,8822,3691,6735>>,
     <<1692536889,3402,6427,6282,9276,1326>>, <<1692536891,4305,3218,5367,5598,8056>>, <<1692536893,4489,6720,3741,6986,1419>>,
     <<1692536895,5503,3000,9159,8604,2585>>, <<1706155593,1618,184,4392,931,9118>>, <<1706155599,747,8541,2450,9577,957>>,
     <<1708740824,9710,5501,2338,1561,4214>>, <<1708740828,5840,7048,4483,9188,868>>, <<1710401793,9275,3691,5221,7152,3822>>,
     <<1710401795,1459,4866,1599,395,173>>, <<1710401797,6055,9255,9359,809,5221>>, <<1710401799,7264,8839,9680,5014,7725>>,
     <<1721460896,8963,5392,9207,9223,2843>>, <<1721460900,6102,4424,2195,2817,3816>>, <<1722847609,6021,2306,6487,2859,3739>>,
     <<1722847611,1757,7721,4080,4124,9757>>, <<1722847613,3002,9932,283,9475,2394>>, <<1722847615,1974,6917,1809,7574,8029>>,
     <<1738002914,7071,8580,866,117,30>>, <<1738002918,2377,4009,9072,4732,5721>>, <<1738549313,4706,1056,2335,702,9072>>,
     <<1738549315,7901,3487,94,9628,2225>>, <<1738549317,8354,1537,9473,5619,7901>>, <<1738549319,9848,2478,3077,2010,6527>>,
     <<1753150841,525,1078,3478,6222,5948>>, <<1753150847,507,2172,5627,7123,8670>>, <<1753547608,4712,5769,3303,7906,3731>>,
     <<1758679041,3715,4785,6824,4543,7079>>, <<1758679043,289,3010,2997,4785,6382>>, <<1758679045,7482,3864,7203,5398,2956>>,
     <<1758679047,6222,7977,5562,702,6577>>, <<1767486944,5999,3476,7313,7102,6411>>, <<1767486950,5934,9360,8779,5104,6441>>,
     <<1776816352,4955,753,4034,8195,8067>>, <<1776816358,6452,8885,6135,134,6710>>, <<1781560385,4129,1681,7841,9263,151>>,
     <<1781560387,1269,2961,4902,3754,8868>>, <<1781560389,9024,7624,139,5350,5054>>, <<1781560391,7059,7566,6404,6436,9175>>,
     <<1788727611,4480,2640,3366,6638,3017>>, <<1788727613,5681,7553,3268,779,5830>>, <<1794714864,964,6887,6500,7392,1982>>,
     <<1795896482,8073,7513,5068,7637,8453>>, <<1795896484,1769,2167,3110,8556,6258>>, <<1807389090,903,205,9117,7481,7878>>,
     <<1807389092,3151,3326,592,1235,6386>>, <<1813512484,8591,7116,2339,6333,9539>>, <<1814736818,7644,9256,6922,6988,1707>>,
     <<1814736822,3147,2254,91,6989,9462>>, <<1826879235,7837,994,9848,6603,2711>>, <<1826879237,6493,2053,7420,4924,4482>>,
     <<1829891921,3978,9153,2594,2959,6627>>, <<1829891927,1915,8407,8192,2133,6397>>, <<1832862139,4740,5042,3968,1165,4670>>,
     <<1832862141,5794,4562,2587,4181,7195>>, <<1845547841,6585,6160,4333,3447,9051>>, <<1845547847,2348,8482,3260,3785,1707>>,
     <<1851162650,1734,3219,5736,8291,5290>>, <<1851162654,9970,8200,1214,8416,6757>>, <<1852059276,5903,2544,7849,7875,1827>>,
     <<1866690067,480,1614,4427,1238,2437>>, <<1866690069,8670,8428,2857,8800,1832>>, <<1869463801,7389,6777,7678,2209,4297>>,
     <<1869463807,5064,2411,1674,8040,1887>>, <<1881437681,3843,9504,5453,6616,9716>>, <<1881437683,3743,6663,8653,4120,3309>>,
     <<1882538052,5749,7349,574,5124,4253>>, <<1887806421,4042,5577,4955,5076,2362>>, <<1887806423,7546,6002,2905,8896,5396>>,
     <<1891510572,4788,7532,1369,5483,28>>, <<1891510574,7023,3263,9195,9587,3940>>, <<1897005275,2507,6340,8881,3591,6299>>,
     <<1897870608,1110,3531,2064,3646,7576>>, <<1897870610,1418,7316,1166,958,1921>>, <<1904568781,7595,8897,6402,8408,6542>>,
     <<1904568783,6278,7785,2049,354,955>>, <<1908335412,9172,6785,4727,6813,3749>>, <<1911158522,5568,5696,3985,8230,9313>>,
     <<1911158524,5984,3543,1696,2241,3599>>, <<1919402246,2867,9218,6326,7932,5741>>, <<1919612109,5605,1329,771,6933,6085>>,
     <<1919612111,2825,6607,2276,4623,8320>>, <<1922106090,299,5479,5924,9217,6981>>, <<1922106094,2816,8695,4928,1050,5882>>,
     <<1924128546,6873,6284,3400,5506,1099>>, <<1924128548,1718,3356,5954,6945,9126>>, <<1925915369,5644,8888,7880,5344,5845>>,
     <<1928112236,1167,1413,8466,1954,3563>>, <<1928112238,2353,1714,111,1463,8637>>, <<1934472272,1851,7636,7754,3805,2123>>,
     <<1934472274,9139,7136,7207,114,9892>>, <<1935442405,8343,2697,1636,6412,1801>>, <<1935442407,2170,5615,802,2182,4591>>,
     <<1940854074,6758,2561,9054,3367,103>>, <<1940854078,8461,1676,8365,4213,8521>>, <<1942743281,1853,4805,1514,7002,247>>,
     <<1942743283,3547,3528,6353,4880,7303>>, <<1944871542,9868,579,9215,8456,2718>>, <<1950515628,472,5900,534,1659,5735>>,
     <<1950865049,7738,7712,6947,1748,8934>>, <<1950865051,3176,1732,5429,6650,8846>>, <<1951642649,8297,8516,9438,9792,7363>>,
     <<1954307168,8999,8833,5505,659,5395>>, <<1954307170,5929,5712,9660,1292,8582>>, <<1967594627,3252,6633,8573,6289,6791>>,
     <<1970599046,2053,2053,5734,4055,4992>>, <<1970913613,3211,1316,6829,8206,4859>>, <<1970913615,82,3404,3773,6777,4917>>,
     <<1971099256,3512,1199,9765,5171,3338>>, <<1972306593,7306,8113,2675,8767,7320>>, <<1972306599,2632,3508,5200,7171,5417>>,
     <<1979790683,8713,6821,6856,3063,8962>>, <<1980498066,424,7921,8496,273,6714>>, <<1981110233,6140,2057,6358,7400,2804>>,
     <<1981110235,2837,7127,1564,387,5242>>, <<1983044958,1686,8841,1060,9722,9307>>, <<1985355923,7795,7477,8563,5579,353>>,
     <<1985355925,1178,8116,8889,6715,1095>>, <<1995962033,7508,9776,1933,7948,4048>>, <<1995962035,8290,53,7906,9846,6185>>,
     <<1995962037,3620,4900,8091,1524,2220>>, <<1995962039,1731,8840,9254,8802,5819>>, <<1997905345,7962,4751,105,4931,3753>>,
     <<1999323149,3481,7070,2468,9617,5993>>, <<1999323151,1331,9062,35,2299,2572>>, <<1999771462,1234,2453,4736,4733,477>>,
     <<2000319928,5426,2780,5209,830,723>>, <<2000319930,7264,9365,2333,856,6070>>, <<2002184841,504,5113,9139,7800,9333>>,
     <<2002184843,6110,5238,9867,6718,5232>>, <<2002184845,738,1864,1965,9482,9711>>, <<2002184847,1158,1023,6326,8846,19>>,
     <<2018319448,768,4456,6890,4731,6678>>, <<2018319450,247,6497,979,8319,890>>, <<2020852116,3510,2733,5642,6088,4858>>,
     <<2025578416,4001,1132,27,3849,508>>, <<2025578422,8211,8304,8432,3377,3997>>, <<2028784254,8595,9163,4457,9337,9735>>,
     <<2029562108,4766,1883,5490,4951,4291>>, <<2029562110,817,6074,7064,8384,2140>>, <<2032063020,7160,6917,5105,2544,2770>>,
     <<2034794869,286,8160,6943,9728,5263>>, <<2034794871,5331,2611,9229,5183,4445>>, <<2037800121,4739,6643,4416,8408,2667>>,
     <<2037800123,8386,3305,2752,5509,7731>>, <<2044168861,3340,746,4121,3595,1579>>, <<2044168863,9072,5828,1038,3318,746>>,
     <<2044717153,4169,5458,9643,4174,7007>>, <<2044717155,2890,7141,6941,1440,2198>>, <<2048892184,7470,2560,9076,1041,7643>>,
     <<2048892186,9723,4752,1343,4173,9593>>, <<2048999638,4852,9155,8606,4363,7041>>, <<2052909648,687,2274,7752,3793,7319>>,
     <<2052909652,5404,9988,1633,4238,6688>>, <<2057972156,8510,4547,2933,8833,7845>>, <<2057972158,4678,3025,6990,8100,1125>>,
     <<2059291452,1456,4836,9238,4360,6078>>, <<2063990857,1602,5750,759,1525,4233>>, <<2067324293,6562,7479,259,1642,2570>>,
     <<2067324295,4432,7457,8377,268,1216>>, <<2070084996,8882,4125,3114,83,8341>>, <<2073127261,1420,4845,1770,8805,9983>>,
     <<2073127263,8053,1750,4247,5412,5196>>, <<2073627555,9878,7042,6159,8706,6121>>, <<2080241256,1843,1263,5122,832,8679>>,
     <<2080241262,3803,487,4235,4473,2563>>, <<2081764809,6636,9334,4536,5414,9932>>, <<2082921932,6391,3646,7250,4260,6543>>,
     <<2089434659,5771,4996,7630,5416,123>>, <<2089773334,3971,2738,5310,7580,2240>>, <<2091159753,9171,8673,8404,259,2594>>,
     <<2091159759,7637,8062,1594,1028,690>>, <<2097257811,6993,9640,3009,9822,1541>>, <<2100196648,6145,2622,576,2010,9792>>,
     <<2100196650,8256,7440,9872,9241,6786>>, <<2101537305,7939,4591,2412,3580,3660>>, <<2101537307,5967,1587,1479,4673,5186>>,
     <<2101537309,7054,6859,4481,5330,6026>>, <<2101537311,774,3013,7550,8069,221>>, <<2105790544,6234,9241,957,1435,58>>,
     <<2108784322,5015,6722,3961,9780,2952>>, <<2108959221,4257,9265,8253,5939,9559>>, <<2108959223,9614,3577,859,2358,5076>>,
     <<2118628491,4629,7668,514,2597,8011>>, <<2120768752,3102,4325,8219,587,4068>>, <<2120768754,4622,6232,4883,5756,8308>>,
     <<2126637096,1059,7478,1707,9986,6576>>, <<2128133985,3132,9069,1004,3718,4786>>, <<2130055563,2925,4012,794,6468,8520>>,
     <<2130055565,2185,5205,2985,2351,2514>>, <<2130971097,7724,7935,1073,2459,5422>>, <<2130971103,3855,4381,4923,1,1865>>,
     <<2136153105,5244,2815,5481,6769,4047>>, <<2137060372,841,1644,1390,3525,3343>>, <<2140865075,1697,2089,6139,6861,6846>>,
     <<2140865077,1199,5971,4799,9842,3602>>, <<2141577209,8940,1542,5016,9573,1702>>, <<2141577211,8876,5234,9028,7090,7727>>,
     <<2141577213,4407,1892,6510,7216,3891>>, <<2141577215,8393,5706,1104,7590,8510>>, <<2144162154,4767,5622,9247,4202,8885>>,
     <<2144162158,5239,6784,2431,7813,9562>>, <<2145822901,501,6357,3454,4464,8234>>, <<2145822903,958,474,4156,6703,4098>>
  >>

\* A function, once compared, is held as a table and no longer recomputed
\* at every application.
Tabled(f) == IF f = <<>> THEN <<>> ELSE f

MT == Tabled([s \in {MTRows[n][1] : n \in DOMAIN MTRows} |->
        LET r == MTRows[CHOOSE n \in DOMAIN MTRows : MTRows[n][1] = s]
        IN  <<r[2], r[3], r[4], r[5], r[6]>>])

\* random.seed(seed): the generator restarts the stream of that seed.
RandomSeed(seed) == [seed |-> seed, drawn |-> 0]

\* random.random() / random.uniform(0, 1): the next number of the stream.
Random(r) == [val |-> MT[r.seed][r.drawn + 1], rng |-> [r EXCEPT !.drawn = @ + 1]]

(***************************************************************************)
(* The cell hash.  Python's ^ works on two's complement of any width and   *)
(* % 2**31 keeps the low 31 bits, which are the xor of the operands' low   *)
(* 31 bits.                                                                *)
(***************************************************************************)
P1 == 73856093
P2 == 19349663
P3 == 83492791

Low31(x) == IF x >= 0 THEN x ELSE (x + 2147483647) + 1

RECURSIVE Xor(_, _)
Xor(a, b) ==
  IF a = 0 THEN b
  ELSE IF b = 0 THEN a
  ELSE 2 * Xor(a \div 2, b \div 2) + (((a % 2) + (b % 2)) % 2)

CellSeed(cell) ==
  Xor(Xor(Low31(cell[1] * P1), Low31(cell[2] * P2)), Low31(cell[3] * P3))

\* The seeds of the lattice cells the model reaches, computed once.
Lattice == {<<i, j, k>> : i \in -4..4, j \in -4..4, k \in -4..4}
Seeds == Tabled([c \in Lattice |-> CellSeed(c)])

\* Lines 39-49: the feature point of a cell, and the generator afterwards.
NewPoint(cell, variance) ==
  LET r0 == RandomSeed(Seeds[cell])
      d1 == Random(r0)
      d2 == Random(d1.rng)
      d3 == Random(d2.rng)
      d4 == Random(d3.rng)
      d5 == Random(d4.rng)
  IN  [point |-> << cell[1] * S + d1.val, cell[2] * S + d2.val, cell[3] * S + d3.val,
                    9000 + Mul(Mul(d4.val, variance), 15000),
                    11000 + Mul(d5.val, 5000) >>,
       rng |-> d5.rng]

\* A scan of the adjacent cells only, range(-1, 2).
ReachOfOne == 2 - 1

\* Lines 32-34: range(-3, 4) on each axis.
Reach == 3

\* The cells the three loops visit, range(-3, 4) on each axis.
Window(cx, cy, cz) ==
  {<<cx + i, cy + j, cz + k>> :
     i \in -Reach .. Reach, j \in -Reach .. Reach, k \in -Reach .. Reach}

\* _voronoi_points[cell] after lines 36-49.
EntryRegenerated(cache, cell, variance) == NewPoint(cell, variance).point

Entry(cache, cell, variance) ==
  IF cell \in DOMAIN cache THEN cache[cell] ELSE NewPoint(cell, variance).point

\* The cache after the loops have visited every cell of W.
Filled(cache, W, variance) ==
  Tabled([c \in (DOMAIN cache) \cup W |-> Entry(cache, c, variance)])

\* The last cell of W, in loop order, that the loops had to generate.
LastOf(cells) ==
  LET i == CHOOSE a \in {c[1] : c \in cells} : \A c \in cells : c[1] <= a
      J == {c \in cells : c[1] = i}
      j == CHOOSE a \in {c[2] : c \in J} : \A c \in J : c[2] <= a
      K == {c \in J : c[2] = j}
  IN  CHOOSE c \in K : \A d \in K : d[3] <= c[3]

\* The generator after the loops: seeded and drawn from by the last miss.
RngAfter(cache, generator, W, variance) ==
  IF W \subseteq DOMAIN cache THEN generator
  ELSE NewPoint(LastOf(W \ DOMAIN cache), variance).rng

\* Line 52, times r_f^2: the squared distance to the feature point.
Dist2(p, sx, sy, sz) == Sq(sx - p[1]) + Sq(sy - p[2]) + Sq(sz - p[3])

\* Lines 52 and 54: d2 < 1.0, that is dist2 < r_f^2.
Covers(p, sx, sy, sz) == Dist2(p, sx, sy, sz) < Sq(p[5])

\* Line 52: d2, for a point the lobe covers.
D2(p, sx, sy, sz) == (Dist2(p, sx, sy, sz) * S) \div Sq(p[5])

\* Lines 57-58: the quartic profile (1 - d2)^2.
ProfileFlat(t) == S

Profile(t) == Mul(t, t)

\* Lines 57-59: the height a covering lobe contributes.
Lobe(p, sx, sy, sz) == Mul(Profile(S - D2(p, sx, sy, sz)), p[4])

(***************************************************************************)
(* _pmax: (a^k + b^k)^(1/k) with k = 6.0, evaluated as                     *)
(* m * (1 + (n/m)^6)^(1/6) for m = max(a, b), n = min(a, b), the same      *)
(* number, whose intermediate results fit.  Root6(y, lo, hi) is the        *)
(* largest x in lo..hi-1 with x^6 <= y.                                    *)
(***************************************************************************)
Pow6(x) == LET x3 == Mul(Mul(x, x), x) IN Mul(x3, x3)

RECURSIVE Root6(_, _, _)
Root6(y, lo, hi) ==
  IF hi - lo <= 1 THEN lo
  ELSE LET mid == (lo + hi) \div 2
       IN  IF Pow6(mid) <= y THEN Root6(y, mid, hi) ELSE Root6(y, lo, mid)

PowerMean(m, n) ==
  IF m = 0 THEN 0
  ELSE Mul(m, Root6(S + Pow6((n * S) \div m), S, 11226))

\* The normalised power mean, ((a^k + b^k) / 2)^(1/k): 2^(-1/6) is 0.8909.
pmaxMean(a0, b0, k) ==
  LET a == Max(0, a0)
      b == Max(0, b0)
  IN  Mul(PowerMean(Max(a, b), Min(a, b)), 8909)

\* A sign slip, a^k - b^k: the root of a negative number is not a height.
pmaxMinus(a0, b0, k) ==
  LET a == Max(0, a0)
      b == Max(0, b0)
  IN  IF a >= b THEN a ELSE -b

pmax(a0, b0, k) ==
  LET a == Max(0, a0)
      b == Max(0, b0)
  IN  PowerMean(Max(a, b), Min(a, b))

(***************************************************************************)
(* The three loops of get_voronoi_noise over a filled cache, innermost     *)
(* first.  The running total is tested at every call so that it is a       *)
(* number, not a pending computation, when the next cell is merged.        *)
(***************************************************************************)
Merge(cache, cell, sx, sy, sz, final_val) ==
  IF Covers(cache[cell], sx, sy, sz)
  THEN pmax(final_val, Lobe(cache[cell], sx, sy, sz), 6)
  ELSE final_val

RECURSIVE ScanK(_, _, _, _, _, _, _, _, _)
ScanK(cache, ci, cj, cz, sx, sy, sz, k, final_val) ==
  IF final_val = final_val /\ k > Reach THEN final_val
  ELSE ScanK(cache, ci, cj, cz, sx, sy, sz, k + 1,
             Merge(cache, <<ci, cj, cz + k>>, sx, sy, sz, final_val))

RECURSIVE ScanJ(_, _, _, _, _, _, _, _, _)
ScanJ(cache, ci, cy, cz, sx, sy, sz, j, final_val) ==
  IF final_val = final_val /\ j > Reach THEN final_val
  ELSE ScanJ(cache, ci, cy, cz, sx, sy, sz, j + 1,
             ScanK(cache, ci, cy + j, cz, sx, sy, sz, -Reach, final_val))

RECURSIVE ScanI(_, _, _, _, _, _, _, _, _)
ScanI(cache, cx, cy, cz, sx, sy, sz, i, final_val) ==
  IF final_val = final_val /\ i > Reach THEN final_val
  ELSE ScanI(cache, cx, cy, cz, sx, sy, sz, i + 1,
             ScanJ(cache, cx + i, cy, cz, sx, sy, sz, -Reach, final_val))

\* Lines 24-25: the scaled point and its cell.
Scaled(x, scale) == (x * scale) \div CU
Floor(sx) == sx \div S

\* get_voronoi_noise: the value returned, the cache and the generator left.
get_voronoi_noise(cache, generator, x, y, z, scale, variance) ==
  LET sx == Scaled(x, scale)
      sy == Scaled(y, scale)
      sz == Scaled(z, scale)
      cx == Floor(sx)
      cy == Floor(sy)
      cz == Floor(sz)
      W  == Window(cx, cy, cz)
      filled == Filled(cache, W, variance)
  IN  [val   |-> ScanI(filled, cx, cy, cz, sx, sy, sz, -Reach, 0),
       cache |-> filled,
       rng   |-> RngAfter(cache, generator, W, variance)]

(***************************************************************************)
(* The mesh buffers.  coords and normals hold one <<x, y, z>> per raw      *)
(* vertex (the flat Python lists taken three floats at a time), indices    *)
(* holds raw vertex numbers counted from 0, three per triangle.            *)
(***************************************************************************)
At(seq, i) == seq[i + 1]                  \* Python's seq[i]

Put(f, k, v) == [x \in (DOMAIN f) \cup {k} |-> IF x = k THEN v ELSE f[x]]

Round4Down(c) == (c \div 10) * 10

\* round(c, 4): the nearest multiple of 0.0001, an exact tie going to the
\* even one.  (A decimal ending in 5 at the fifth place is no exact tie as
\* a binary float; the coordinates drawn below avoid that digit.)
Round4(c) ==
  LET lo == (c \div 10) * 10
      r  == c - lo
  IN  IF r < 5 THEN lo
      ELSE IF r > 5 THEN lo + 10
      ELSE IF (lo \div 10) % 2 = 0 THEN lo ELSE lo + 10

PosKey(node_coords, idx) ==
  <<Round4(At(node_coords, idx)[1]), Round4(At(node_coords, idx)[2]),
    Round4(At(node_coords, idx)[3])>>

NoWeld == [v_normals |-> <<>>, v_counts |-> <<>>, pos_list |-> <<>>]

RECURSIVE WeldFrom(_, _, _, _)
\* Vertex welding and normal summing; pos_list keeps the keys in the order
\* the dictionary received them.
WeldFrom(node_coords, normal_vectors, i, w) ==
  IF i >= Len(node_coords) THEN w
  ELSE LET pos  == PosKey(node_coords, i)
           n    == At(normal_vectors, i)
           seen == pos \in DOMAIN w.v_normals
           sum  == IF seen THEN w.v_normals[pos] ELSE <<0, 0, 0>>
           cnt  == IF seen THEN w.v_counts[pos] ELSE 0
       IN  WeldFrom(node_coords, normal_vectors, i + 1,
             [v_normals |-> Put(w.v_normals, pos, <<sum[1] + n[1], sum[2] + n[2], sum[3] + n[3]>>),
              v_counts  |-> Put(w.v_counts, pos, cnt + 1),
              pos_list  |-> IF seen THEN w.pos_list ELSE Append(w.pos_list, pos)])

Weld(node_coords, normal_vectors) ==
  WeldFrom(node_coords, normal_vectors, 0, NoWeld)

pos_idx_map(positions) ==
  [p \in {positions[n] : n \in DOMAIN positions} |->
     (CHOOSE n \in DOMAIN positions : positions[n] = p) - 1]

\* An index buffer the adjacency loop cannot walk: indices[i + 1] or
\* coords[base] raises IndexError.
BadIndices(node_coords, node_indices) ==
  \/ Len(node_indices) % 3 # 0
  \/ \E n \in DOMAIN node_indices :
       node_indices[n] < 0 \/ node_indices[n] >= Len(node_coords)

AddNeighbour(adj, id, other) == [adj EXCEPT ![id] = @ \cup {other}]

AddConnections(adj, id1, id2, id3) ==
  AddNeighbour(AddNeighbour(AddNeighbour(AddNeighbour(AddNeighbour(AddNeighbour(
    adj, id1, id2), id1, id3), id2, id1), id2, id3), id3, id1), id3, id2)

RECURSIVE AdjacencyFrom(_, _, _, _, _)
AdjacencyFrom(node_coords, node_indices, idx_map, i, adj) ==
  IF i >= Len(node_indices) THEN adj
  ELSE AdjacencyFrom(node_coords, node_indices, idx_map, i + 3,
         AddConnections(adj,
                        idx_map[PosKey(node_coords, At(node_indices, i))],
                        idx_map[PosKey(node_coords, At(node_indices, i + 1))],
                        idx_map[PosKey(node_coords, At(node_indices, i + 2))]))

Adjacency(node_coords, node_indices, positions) ==
  AdjacencyFrom(node_coords, node_indices, pos_idx_map(positions), 0,
                [id \in 0 .. Len(positions) - 1 |-> {}])

RECURSIVE SqrtBetween(_, _, _)
\* The largest r in lo .. hi - 1 with r * r <= n.
SqrtBetween(n, lo, hi) ==
  IF hi - lo <= 1 THEN lo
  ELSE LET mid == (lo + hi) \div 2
       IN  IF mid * mid <= n THEN SqrtBetween(n, mid, hi) ELSE SqrtBetween(n, lo, mid)

Sqrt(n) == SqrtBetween(n, 0, 46341)

\* math.sqrt(n[0]**2 + n[1]**2 + n[2]**2)
Magnitude(n) == Sqrt(n[1] * n[1] + n[2] * n[2] + n[3] * n[3])

InitialSmoothnessSum(w) ==
  [id \in 0 .. Len(w.pos_list) - 1 |-> Magnitude(w.v_normals[At(w.pos_list, id)])]

InitialSmoothness(w) ==
  [id \in 0 .. Len(w.pos_list) - 1 |->
     LET p == At(w.pos_list, id)
     IN  IF w.v_counts[p] > 0 THEN Magnitude(w.v_normals[p]) \div w.v_counts[p] ELSE S]

RECURSIVE SumOver(_, _)
SumOver(current_smoothness, ids) ==
  IF ids = {} THEN 0
  ELSE LET n_idx == CHOOSE n \in ids : TRUE
       IN  current_smoothness[n_idx] + SumOver(current_smoothness, ids \ {n_idx})

DiffusionPassNone(current_smoothness, adj) == current_smoothness

\* Lines 206-213: the mean of the group's value and its neighbours'.
Averaged(values, i, neighbors) ==
  (values[i] + SumOver(values, neighbors)) \div (1 + Cardinality(neighbors))

\* A pass that reads what it has already written in the same pass.
RECURSIVE PassInPlace(_, _, _, _)
PassInPlace(current_smoothness, adj, i, next_smoothness) ==
  IF i \notin DOMAIN current_smoothness THEN next_smoothness
  ELSE PassInPlace(current_smoothness, adj, i + 1,
         IF adj[i] = {} THEN next_smoothness
         ELSE [next_smoothness EXCEPT ![i] = Averaged(next_smoothness, i, adj[i])])

DiffusionPassInPlace(current_smoothness, adj) ==
  PassInPlace(current_smoothness, adj, 0, current_smoothness)

\* Lines 200-213: the loop over the groups, in index order; it reads
\* current_smoothness and writes next_smoothness.
RECURSIVE PassLoop(_, _, _, _)
PassLoop(current_smoothness, adj, i, next_smoothness) ==
  IF i \notin DOMAIN current_smoothness THEN next_smoothness
  ELSE PassLoop(current_smoothness, adj, i + 1,
         IF adj[i] = {} THEN next_smoothness
         ELSE [next_smoothness EXCEPT ![i] = Averaged(current_smoothness, i, adj[i])])

\* One pass: next_smoothness starts as a copy of current_smoothness.
DiffusionPass(current_smoothness, adj) ==
  PassLoop(current_smoothness, adj, 0, current_smoothness)

passes == 3

(***************************************************************************)
(* Displacement of the raw vertices.                                       *)
(***************************************************************************)
\* smooth_val ** 4.0
Attenuation(smooth_val) == Mul(Mul(smooth_val, smooth_val), Mul(smooth_val, smooth_val))

UnitNormalOfSum(avg_n) ==
  <<(avg_n[1] * S) \div Max(1, Magnitude(avg_n)),
    (avg_n[2] * S) \div Max(1, Magnitude(avg_n)),
    (avg_n[3] * S) \div Max(1, Magnitude(avg_n))>>

\* nx, ny, nz: (0, 0, 1) when mag < 0.0001, avg_n / mag otherwise.
UnitNormal(avg_n) ==
  LET mag == Magnitude(avg_n)
  IN  IF mag < 1 THEN <<0, 0, S>>
      ELSE <<(avg_n[1] * S) \div mag, (avg_n[2] * S) \div mag, (avg_n[3] * S) \div mag>>

EpsilonFace == 200                        \* 0.02

Epsilon(is_body_selection) == IF is_body_selection THEN 0 ELSE EpsilonFace

Displacement(val, height, attenuation, is_body_selection) ==
  Mul(Mul(val, height), attenuation) + Epsilon(is_body_selection)

MovedInward(x, nx, displacement) == x - (nx * displacement) \div (S \div 10)

\* x + nx * displacement, as a coordinate
Moved(x, nx, displacement) == x + (nx * displacement) \div (S \div 10)

ResetKept(cache) == cache

\* global _voronoi_points; _voronoi_points = {}
Reset(cache) == <<>>

\* Every raw vertex moved along its own normal, as if nothing were welded.
DisplacedAlone(g, cmd, i, d, r) ==
  LET v   == At(g.coords, i)
      pos == PosKey(g.coords, i)
      n   == UnitNormal(At(g.normals, i))
      displacement ==
        Displacement(r.val, cmd.height,
                     Attenuation(g.final_smoothness[g.idx_map[pos]]),
                     cmd.is_body_selection)
  IN  [cache |-> r.cache, rng |-> r.rng,
       new_coords |-> Append(d.new_coords,
                            <<Moved(v[1], n[1], displacement),
                              Moved(v[2], n[2], displacement),
                              Moved(v[3], n[3], displacement)>>),
       vals |-> Append(d.vals, r.val)]

\* One turn of the displacement loop: d is what the loop has reached
\* (cache, rng, new_coords, vals), r what get_voronoi_noise returned.
Displaced(g, cmd, i, d, r) ==
  LET v   == At(g.coords, i)
      pos == PosKey(g.coords, i)
      n   == UnitNormal(g.v_normals[pos])
      displacement ==
        Displacement(r.val, cmd.height,
                     Attenuation(g.final_smoothness[g.idx_map[pos]]),
                     cmd.is_body_selection)
  IN  [cache |-> r.cache, rng |-> r.rng,
       new_coords |-> Append(d.new_coords,
                            <<Moved(v[1], n[1], displacement),
                              Moved(v[2], n[2], displacement),
                              Moved(v[3], n[3], displacement)>>),
       vals |-> Append(d.vals, r.val)]

RECURSIVE DisplaceFrom(_, _, _, _)
DisplaceFrom(g, cmd, i, d) ==
  IF d = d /\ i >= Len(g.coords) THEN d
  ELSE DisplaceFrom(g, cmd, i + 1,
         Displaced(g, cmd, i, d,
                   get_voronoi_noise(d.cache, d.rng, At(g.coords, i)[1], At(g.coords, i)[2],
                                     At(g.coords, i)[3], cmd.density, cmd.variance)))

RECURSIVE Diffused(_, _, _)
\* current_smoothness as first computed and after each of n passes.
Diffused(trace, adj, n) ==
  IF n = 0 THEN trace
  ELSE Diffused(Append(trace, DiffusionPass(trace[Len(trace)], adj)), adj, n - 1)

\* Welding, adjacency, smoothness and diffusion of a mesh whose index
\* buffer can be walked.
Graph(mesh) ==
  LET w   == Weld(mesh.coords, mesh.normals)
      adj == Adjacency(mesh.coords, mesh.indices, w.pos_list)
      smooth == Diffused(<<InitialSmoothness(w)>>, adj, passes)
  IN  [coords |-> mesh.coords, normals |-> mesh.normals,
       v_normals |-> w.v_normals, v_counts |-> w.v_counts,
       pos_list |-> w.pos_list, idx_map |-> pos_idx_map(w.pos_list), adj_list |-> adj,
       smoothness |-> smooth, final_smoothness |-> smooth[Len(smooth)]]

\* The triangles written to the STL file: per triangle its three corners'
\* new coordinates in index order.
RECURSIVE Facets(_, _, _)
Facets(node_indices, moved_coords, i) ==
  IF i >= Len(node_indices) THEN <<>>
  ELSE <<<<At(moved_coords, At(node_indices, i)),
           At(moved_coords, At(node_indices, i + 1)),
           At(moved_coords, At(node_indices, i + 2))>>>>
       \o Facets(node_indices, moved_coords, i + 3)

(***************************************************************************)
(* struct.pack('<f', f): the IEEE 754 single nearest to f, least           *)
(* significant byte first.  f is a coordinate, in units of 1/CU.  The      *)
(* number is num/den * 2^e with den <= num < 2 * den; the 23 fraction bits *)
(* come out of a long division, rounded half to even.                      *)
(***************************************************************************)
RECURSIVE Normalized(_, _, _)
Normalized(num, den, e) ==
  IF num >= 2 * den THEN Normalized(num, 2 * den, e + 1)
  ELSE IF num < den THEN Normalized(2 * num, den, e - 1)
  ELSE [num |-> num, den |-> den, e |-> e]

RECURSIVE FractionBits(_, _, _, _)
FractionBits(r, den, k, m) ==
  IF k = 0 THEN [m |-> m, r |-> r]
  ELSE IF 2 * r >= den THEN FractionBits(2 * r - den, den, k - 1, 2 * m + 1)
  ELSE FractionBits(2 * r, den, k - 1, 2 * m)

Rounded(q, den) ==
  IF 2 * q.r > den THEN q.m + 1
  ELSE IF 2 * q.r = den THEN q.m + (q.m % 2)
  ELSE q.m

\* The biased exponent and the fraction of a single.
Single(f) ==
  IF f = 0 THEN [sign |-> 0, exponent |-> 0, fraction |-> 0]
  ELSE LET n == Normalized(Abs(f), CU, 0)
           m == Rounded(FractionBits(n.num - n.den, n.den, 23, 0), n.den)
       IN  [sign     |-> IF f < 0 THEN 1 ELSE 0,
            exponent |-> IF m = 8388608 THEN n.e + 128 ELSE n.e + 127,
            fraction |-> IF m = 8388608 THEN 0 ELSE m]

BigEndian(s) ==
  <<s.sign * 128 + s.exponent \div 2,
    (s.exponent % 2) * 128 + s.fraction \div 65536,
    (s.fraction \div 256) % 256,
    s.fraction % 256>>

LittleEndian(s) ==
  <<s.fraction % 256,
    (s.fraction \div 256) % 256,
    (s.exponent % 2) * 128 + s.fraction \div 65536,
    s.sign * 128 + s.exponent \div 2>>

float_to_bytes(f) == LittleEndian(Single(f))

\* b'\x00' * n
Zeros(n) == [i \in 1 .. n |-> 0]

\* num_tris.to_bytes(4, 'little')
to_bytes(n) ==
  <<n % 256, (n \div 256) % 256, (n \div 65536) % 256, (n \div 16777216) % 256>>

\* Lines 278-281: one corner's three coordinates.
CornerBytes(v) == float_to_bytes(v[1]) \o float_to_bytes(v[2]) \o float_to_bytes(v[3])

\* Lines 273-283: one triangle's record.
FacetBytes(t) ==
  float_to_bytes(0) \o float_to_bytes(0) \o float_to_bytes(0)
  \o CornerBytes(t[1]) \o CornerBytes(t[2]) \o CornerBytes(t[3])
  \o Zeros(2)

RECURSIVE Concatenated(_)
Concatenated(chunks) ==
  IF chunks = <<>> THEN <<>> ELSE Head(chunks) \o Concatenated(Tail(chunks))

\* Lines 265-283: the bytes written to the temporary file.
StlFile(node_indices, moved_coords) ==
  Zeros(80) \o to_bytes(Len(node_indices) \div 3)
  \o Concatenated([n \in 1 .. Len(Facets(node_indices, moved_coords, 0)) |->
                     FacetBytes(Facets(node_indices, moved_coords, 0)[n])])

(***************************************************************************)
(* State.                                                                  *)
(***************************************************************************)
VARIABLES
  voronoi_points,   \* the module's cache: cell -> <<px, py, pz, h_f, r_f>>
  rng,              \* the state of Python's global generator
  noise_args,       \* the arguments of the last call of get_voronoi_noise
  noise_val,        \* the value it returned
  answers,          \* since the cache was last emptied: arguments -> value returned
  run_vars,         \* since the cache was last emptied: the variances passed
  calls,            \* since the cache was last emptied: the number of direct calls
  test,             \* the continuity test that is running, or "idle"
  step,             \* its loop index i
  prev_val,         \* its prev_val (None before the first sample)
  max_jump,         \* its max_jump
  verdict,          \* "none", "running", "pass" or "fail"
  stage,            \* how far the mesh has been processed
  coords,           \* base_mesh.nodeCoordinatesAsFloat
  normals,          \* base_mesh.normalVectorsAsFloat
  indices,          \* base_mesh.nodeIndices
  v_normals,        \* rounded position -> sum of the normals welded there
  v_counts,         \* rounded position -> number of raw vertices welded there
  pos_list,         \* the rounded positions; a weld group's id is its place here
  adj_list,         \* weld group id -> set of neighbour ids
  smoothness,       \* current_smoothness: as first computed, then after each pass
  command,          \* the inputs of the last invocation of the execute handler
  new_coords,       \* its displaced coordinates
  vals,             \* the noise value it got for each raw vertex
  visible,          \* isVisible of the body
  stl,              \* what it wrote to the temporary STL file
  tmp_files,        \* the number of temporary files on disk
  mesh_bodies,      \* the number of mesh bodies of the component
  is_valid_result,  \* args.isValidResult of the last invocation
  message,          \* whether it showed the 'Failed' message box
  runs,             \* the number of invocations
  entry_vars        \* the variances of the points the cache held when the last one began

noiseVars == <<voronoi_points, rng>>
callVars  == <<noise_args, noise_val, answers, run_vars, calls>>
testVars  == <<test, step, prev_val, max_jump, verdict>>
meshVars  == <<stage, coords, normals, indices>>
graphVars == <<v_normals, v_counts, pos_list, adj_list>>
smoothVars == <<smoothness>>
execVars  == <<command, new_coords, vals, visible, stl, tmp_files, mesh_bodies,
               is_valid_result, message, runs, entry_vars>>
handlerVars == <<meshVars, graphVars, smoothVars, execVars>>
vars == <<noiseVars, callVars, testVars, handlerVars>>

None == 0 - 1                            \* prev_val before the first sample
NoArgs == <<>>
Unseeded == [seed |-> 0 - 1, drawn |-> 0]   \* seeded by the system at import

InitNoise ==
  /\ voronoi_points = <<>>
  /\ rng = Unseeded
  /\ noise_args = NoArgs
  /\ noise_val = 0
  /\ answers = <<>>
  /\ run_vars = {}
  /\ calls = 0

InitTest ==
  /\ test = "idle"
  /\ step = 0
  /\ prev_val = None
  /\ max_jump = 0
  /\ verdict = "none"

NoMesh == [coords |-> <<>>, normals |-> <<>>, indices |-> <<>>]

InitMesh ==
  /\ stage = "none"
  /\ coords = <<>>
  /\ normals = <<>>
  /\ indices = <<>>

InitGraph ==
  /\ v_normals = <<>>
  /\ v_counts = <<>>
  /\ pos_list = <<>>
  /\ adj_list = <<>>

InitSmooth == smoothness = <<>>

InitExec ==
  /\ command = <<>>
  /\ new_coords = <<>>
  /\ vals = <<>>
  /\ visible = TRUE
  /\ stl = <<>>
  /\ tmp_files = 0
  /\ mesh_bodies = 0
  /\ is_valid_result = FALSE
  /\ message = FALSE
  /\ runs = 0
  /\ entry_vars = {}

Init == InitNoise /\ InitTest /\ InitMesh /\ InitGraph /\ InitSmooth /\ InitExec

(***************************************************************************)
(* Direct calls of get_voronoi_noise, and the emptying of the cache.       *)
(***************************************************************************)
MaxCalls == 3

NoisePoints == { <<-5000, 0, 0>>, <<95000, 50000, 50000>> }
NoiseScales == { 10000, 15000 }
NoiseVariances == { 4000, 8000 }

\* What a call leaves behind: r is what get_voronoi_noise returned and left.
Returned(args, r) ==
  /\ voronoi_points' = r.cache
  /\ rng' = r.rng
  /\ noise_args' = args
  /\ noise_val' = r.val

Call(x, y, z, scale, variance) ==
  /\ calls < MaxCalls
  /\ Returned(<<x, y, z, scale, variance>>,
              get_voronoi_noise(voronoi_points, rng, x, y, z, scale, variance))
  /\ answers' = IF noise_args' \in DOMAIN answers THEN answers
                ELSE answers @@ (noise_args' :> noise_val')
  /\ run_vars' = run_vars \cup {variance}
  /\ calls' = calls + 1
  /\ UNCHANGED <<testVars, handlerVars>>

\* setUp of the tests: global _voronoi_points; _voronoi_points = {}
ClearCache ==
  /\ voronoi_points # <<>>
  /\ voronoi_points' = <<>>
  /\ answers' = <<>>
  /\ run_vars' = {}
  /\ calls' = 0
  /\ UNCHANGED <<rng, noise_args, noise_val, testVars, handlerVars>>

CallAny ==
  \E p \in NoisePoints, scale \in NoiseScales, variance \in NoiseVariances :
    Call(p[1], p[2], p[3], scale, variance)

NextNoise == CallAny \/ ClearCache

SpecNoise == Init /\ [][NextNoise]_vars

(***************************************************************************)
(* The continuity tests: test_continuity_at_origin walks x from -0.1 at    *)
(* y = z = 0 with scale 1.5, test_continuity_at_cell_boundary walks x from *)
(* 0.9 at y = z = 0.5 with scale 1.0; both take steps samples 0.2 / steps  *)
(* apart with variance 0.4.                                                *)
(***************************************************************************)
steps == 200
JumpLimit == 500       \* 0.05

Tests == {"origin", "boundary"}
TestX0(t)    == IF t = "origin" THEN -10000 ELSE 90000
TestYZ(t)    == IF t = "origin" THEN 0 ELSE 50000
TestScale(t) == IF t = "origin" THEN 15000 ELSE 10000
TestVariance == 4000

SetUp(t) ==
  /\ verdict # "running"
  /\ test' = t
  /\ voronoi_points' = <<>>
  /\ answers' = <<>>
  /\ run_vars' = {}
  /\ calls' = 0
  /\ step' = 0
  /\ prev_val' = None
  /\ max_jump' = 0
  /\ verdict' = "running"
  /\ UNCHANGED <<rng, noise_args, noise_val, handlerVars>>

Sample ==
  /\ test \in Tests
  /\ verdict = "running"
  /\ step < steps
  /\ LET x == TestX0(test) + (2 * CU * step) \div (10 * steps)
     IN  Returned(<<x, TestYZ(test), TestYZ(test), TestScale(test), TestVariance>>,
                  get_voronoi_noise(voronoi_points, rng, x, TestYZ(test), TestYZ(test),
                                    TestScale(test), TestVariance))
  /\ LET diff == IF prev_val = None THEN 0 ELSE Abs(noise_val' - prev_val)
     IN  /\ max_jump' = Max(max_jump, diff)
         /\ verdict' = IF diff > JumpLimit THEN "fail" ELSE "running"
  /\ prev_val' = noise_val'
  /\ step' = step + 1
  /\ UNCHANGED <<answers, run_vars, calls, test, handlerVars>>

Finish ==
  /\ test \in Tests
  /\ verdict = "running"
  /\ step = steps
  /\ verdict' = IF max_jump < JumpLimit THEN "pass" ELSE "fail"
  /\ UNCHANGED <<noiseVars, callVars, test, step, prev_val, max_jump, handlerVars>>

SetUpAny == \E t \in Tests : SetUp(t)

NextTest == SetUpAny \/ Sample \/ Finish

SpecTest == Init /\ [][NextTest]_vars

(***************************************************************************)
(* The mesh stages of the execute handler, one at a time, on every small   *)
(* mesh of a family, and the diffusion passes on the strip of              *)
(* test_diffusion.                                                         *)
(***************************************************************************)
MaxVerts == 3

\* The second position rounds to the first, the third to the next key.
MeshPositions == { <<0, 0, 0>>, <<4, -4, 0>>, <<6, 0, 0>>, <<10000, 0, 13>> }
UnitNormals == { <<S, 0, 0>>, <<0, S, 0>>, <<0, 0, S>>, <<0, 0, -S>> }

\* n raw vertices in a fan of n - 2 triangles around vertex 0.
Fan(n) == [k \in 1 .. 3 * (n - 2) |->
             IF (k - 1) % 3 = 0 THEN 0 ELSE ((k - 1) \div 3) + ((k - 1) % 3)]

\* test_diffusion: the topology 0 -- 1 -- 2 -- 3 -- 4
StripNeighbors == [i \in 0 .. 4 |-> {j \in 0 .. 4 : j = i - 1 \/ j = i + 1}]
\* The same strip with its last vertex in no triangle: 0 -- 1 -- 2 -- 3   4
CutStripNeighbors == [i \in 0 .. 4 |-> {j \in 0 .. 3 : i < 4 /\ (j = i - 1 \/ j = i + 1)}]
CornerSmoothness == 5770
StripSmoothness == [i \in 0 .. 4 |-> IF i = 0 THEN CornerSmoothness ELSE S]

InitMeshDrawn ==
  /\ stage = "mesh"
  /\ \E n \in 3 .. MaxVerts :
       /\ coords \in [1 .. n -> MeshPositions]
       /\ normals \in [1 .. n -> UnitNormals]
       /\ indices = Fan(n)
  /\ InitGraph
  /\ InitSmooth

InitStrip ==
  /\ stage = "smooth"
  /\ coords = <<>>
  /\ normals = <<>>
  /\ indices = <<>>
  /\ v_normals = <<>>
  /\ v_counts = <<>>
  /\ pos_list = <<>>
  /\ adj_list \in {StripNeighbors, CutStripNeighbors}
  /\ \E s \in [0 .. 4 -> {CornerSmoothness, S}] : smoothness = <<s>>

InitStages == InitNoise /\ InitTest /\ InitExec /\ (InitMeshDrawn \/ InitStrip)

otherVars == <<noiseVars, callVars, testVars, execVars>>

WeldVertices ==
  /\ stage = "mesh"
  /\ stage' = "welded"
  /\ v_normals' = Weld(coords, normals).v_normals
  /\ v_counts' = Weld(coords, normals).v_counts
  /\ pos_list' = Weld(coords, normals).pos_list
  /\ UNCHANGED <<coords, normals, indices, adj_list, smoothVars, otherVars>>

BuildAdjacency ==
  /\ stage = "welded"
  /\ stage' = "graph"
  /\ adj_list' = Adjacency(coords, indices, pos_list)
  /\ UNCHANGED <<coords, normals, indices, v_normals, v_counts, pos_list, smoothVars, otherVars>>

StartSmoothness ==
  /\ stage = "graph"
  /\ stage' = "smooth"
  /\ smoothness' =
       <<InitialSmoothness([v_normals |-> v_normals, v_counts |-> v_counts,
                            pos_list |-> pos_list])>>
  /\ UNCHANGED <<coords, normals, indices, graphVars, otherVars>>

DiffusionStep ==
  /\ stage = "smooth"
  /\ Len(smoothness) - 1 < passes
  /\ smoothness' = Append(smoothness, DiffusionPass(smoothness[Len(smoothness)], adj_list))
  /\ UNCHANGED <<meshVars, graphVars, otherVars>>

NextStages == WeldVertices \/ BuildAdjacency \/ StartSmoothness \/ DiffusionStep

SpecMesh == InitStages /\ [][NextStages]_vars

(***************************************************************************)
(* The execute handler.  Its inputs are the command inputs (the selected   *)
(* entity, height, density, variance), the mesh the mesh calculator        *)
(* returns for the entity, and what the importer does with the STL file.   *)
(***************************************************************************)
MaxRuns == 2

UpZ == <<0, 0, S>>

\* A flat quad of 4 raw vertices and 2 triangles.
QuadMesh ==
  [coords  |-> << <<-10000, 0, 0>>, <<9900, 0, 0>>, <<9900, 10000, 0>>, <<-10000, 10000, 0>> >>,
   normals |-> <<UpZ, UpZ, UpZ, UpZ>>,
   indices |-> <<0, 1, 2, 0, 2, 3>>]

\* A corner: three raw vertices at one position, one per face normal, and
\* two vertices inside a face.
CornerMesh ==
  [coords  |-> << <<0, 0, 0>>, <<0, 0, 0>>, <<0, 0, 0>>, <<0, 10000, 0>>, <<0, 0, 10000>> >>,
   normals |-> << <<S, 0, 0>>, <<0, S, 0>>, <<0, 0, S>>, <<S, 0, 0>>, <<S, 0, 0>> >>,
   indices |-> <<0, 3, 4, 1, 3, 4, 2, 3, 4>>]

\* Two faces back to back: the raw vertices at the first position have
\* opposite normals.
SheetMesh ==
  [coords  |-> << <<5000, 5000, 0>>, <<5000, 5000, 0>>, <<10000, 0, 0>>, <<0, 10000, 0>> >>,
   normals |-> <<UpZ, <<0, 0, -S>>, UpZ, UpZ>>,
   indices |-> <<0, 2, 3, 1, 3, 2>>]

\* An index buffer that names a vertex the mesh does not have.
TornMesh ==
  [coords  |-> << <<0, 0, 0>>, <<10000, 0, 0>>, <<0, 10000, 0>> >>,
   normals |-> <<UpZ, UpZ, UpZ>>,
   indices |-> <<0, 1, 3>>]

Tessellate(selection) ==
  IF selection = "face" THEN {QuadMesh, NoMesh} ELSE {CornerMesh, SheetMesh, TornMesh}

Commands ==
  {[selection |-> e, height |-> p[1], density |-> p[2], variance |-> p[3]] :
     e \in {"face", "body"},
     p \in { <<5000, 15000, 4000>>, <<S, S, 8000>> }}

Imports == {"body", "nothing", "raises"}

\* The inputs as the handler's loop reads them.
Inputs(cmd) ==
  [height |-> cmd.height, density |-> cmd.density, variance |-> cmd.variance,
   is_body_selection |-> cmd.selection = "body"]

\* From the STL export on: d is what the displacement loop left.
Exported(cmd, mesh, g, d) ==
  \E import \in Imports :
    /\ adj_list' = g.adj_list
    /\ smoothness' = g.smoothness
    /\ voronoi_points' = d.cache
    /\ rng' = d.rng
    /\ noise_args' = IF mesh.coords = <<>> THEN noise_args
                     ELSE LET v == mesh.coords[Len(mesh.coords)]
                          IN  <<v[1], v[2], v[3], cmd.density, cmd.variance>>
    /\ noise_val' = IF mesh.coords = <<>> THEN noise_val ELSE d.vals[Len(d.vals)]
    /\ answers' = <<>>
    /\ run_vars' = IF mesh.coords = <<>> THEN {} ELSE {cmd.variance}
    /\ calls' = 0
    /\ new_coords' = d.new_coords
    /\ vals' = d.vals
    /\ visible' = IF cmd.selection = "body" THEN FALSE ELSE visible
    /\ stl' = StlFile(mesh.indices, d.new_coords)
    /\ tmp_files' = IF import = "raises" THEN tmp_files + 1 ELSE tmp_files
    /\ mesh_bodies' = IF import = "body" THEN mesh_bodies + 1 ELSE mesh_bodies
    /\ is_valid_result' = (import # "raises")
    /\ message' = (import = "raises")

\* From the cache reset on: g is the welded, diffused graph.
Displacing(cmd, mesh, g) ==
  Exported(cmd, mesh, g,
           DisplaceFrom(g, Inputs(cmd), 0,
                        [cache |-> Reset(voronoi_points), rng |-> rng,
                         new_coords |-> <<>>, vals |-> <<>>]))

\* The adjacency loop raised: the except branch shows the message box.
Raised ==
  /\ stage' = "raised"
  /\ adj_list' = <<>>
  /\ smoothness' = <<>>
  /\ new_coords' = <<>>
  /\ vals' = <<>>
  /\ stl' = <<>>
  /\ is_valid_result' = FALSE
  /\ message' = TRUE
  /\ UNCHANGED <<noiseVars, callVars, visible, tmp_files, mesh_bodies>>

Execute(cmd, mesh) ==
  /\ runs < MaxRuns
  /\ runs' = runs + 1
  /\ command' = cmd
  /\ entry_vars' = run_vars
  /\ coords' = mesh.coords
  /\ normals' = mesh.normals
  /\ indices' = mesh.indices
  /\ v_normals' = Weld(mesh.coords, mesh.normals).v_normals
  /\ v_counts' = Weld(mesh.coords, mesh.normals).v_counts
  /\ pos_list' = Weld(mesh.coords, mesh.normals).pos_list
  /\ IF BadIndices(mesh.coords, mesh.indices)
     THEN Raised
     ELSE stage' = "done" /\ Displacing(cmd, mesh, Graph(mesh))
  /\ UNCHANGED testVars

ExecuteAny == \E cmd \in Commands : \E mesh \in Tessellate(cmd.selection) : Execute(cmd, mesh)

NextExec == ExecuteAny

SpecExec == Init /\ [][NextExec]_vars

(***************************************************************************)
(* Properties of the noise field and its cache.                            *)
(***************************************************************************)
Args == [x |-> noise_args[1], y |-> noise_args[2], z |-> noise_args[3],
         scale |-> noise_args[4], variance |-> noise_args[5]]

\* The scaled point of the last call, and the cells its scan visited.
LastPoint == <<Scaled(Args.x, Args.scale), Scaled(Args.y, Args.scale),
               Scaled(Args.z, Args.scale)>>
LastWindow == Window(Floor(LastPoint[1]), Floor(LastPoint[2]), Floor(LastPoint[3]))
CoveredAmong(cells, p) == {c \in cells : Covers(voronoi_points[c], p[1], p[2], p[3])}
Covering == CoveredAmong(LastWindow, LastPoint)

EntriesKept ==
  \A c \in DOMAIN voronoi_points :
    c \in DOMAIN voronoi_points' /\ voronoi_points'[c] = voronoi_points[c]

EntriesOfCellAndVariance ==
  \A v \in run_vars :
    run_vars = {v} =>
      \A c \in DOMAIN voronoi_points : voronoi_points[c] = NewPoint(c, v).point

SameAnswer ==
  noise_args \in DOMAIN answers => noise_val = answers[noise_args]

\* C1: between two emptyings of the cache an entry, once stored, is never
\* replaced (every step other than the emptying keeps every entry as it is);
\* while one variance is in use every entry is the point its cell and that
\* variance determine, whatever queries created it and in whatever order;
\* and a query repeated returns the value it returned the first time.
C1_OnePointPerCell ==
  /\ [](EntriesOfCellAndVariance /\ SameAnswer)
  /\ [][voronoi_points' = <<>> \/ EntriesKept]_vars

\* C1 witness: a point has been evaluated a second time since the cache was
\* emptied, with one variance in use and the cache holding more than one
\* scan window.
C1_Witness ==
  /\ calls > Cardinality(DOMAIN answers)
  /\ Cardinality(run_vars) = 1
  /\ Cardinality(DOMAIN voronoi_points) > Cardinality(LastWindow)

RECURSIVE MergeOver(_, _, _)
\* The power-max of the lobes of the given cells in scan order.
MergeOver(cells, p, final_val) ==
  IF cells = {} THEN final_val
  ELSE LET c == CHOOSE c \in cells :
                  \A d \in cells :
                     \/ c[1] < d[1]
                     \/ c[1] = d[1] /\ c[2] < d[2]
                     \/ c[1] = d[1] /\ c[2] = d[2] /\ c[3] <= d[3]
       IN  MergeOver(cells \ {c}, p,
                     pmax(final_val, Lobe(voronoi_points[c], p[1], p[2], p[3]), 6))

\* The last call's result can be compared with the points it used.
Answered == noise_args # NoArgs /\ voronoi_points # <<>>

C4_NoStep ==
  /\ max_jump < JumpLimit
  /\ verdict # "fail"
  /\ \A h \in {9000, S, 15000} : Mul(Profile(S - S), h) = 0

\* C4 witness: the walk across the cell boundary has taken all its samples,
\* the value changed along it, and the test passed.
C4_Witness ==
  /\ test = "boundary"
  /\ step = steps
  /\ verdict = "pass"
  /\ max_jump > 0

(***************************************************************************)
(* Properties of the mesh graph and of the smoothness field.               *)
(***************************************************************************)
RawVertices == 0 .. Len(coords) - 1
Welded == stage \in {"welded", "graph", "smooth", "done"} /\ coords # <<>>

\* k is c rounded to 4 decimals: the multiple of 0.0001 nearest to c.
RoundsTo(c, k) == k % 10 = 0 /\ Abs(k - c) <= 5

Members(key) ==
  {i \in RawVertices : \A a \in 1 .. 3 : RoundsTo(At(coords, i)[a], key[a])}

RECURSIVE NormalSum(_)
NormalSum(vertices) ==
  IF vertices = {} THEN <<0, 0, 0>>
  ELSE LET i == CHOOSE i \in vertices : TRUE
           rest == NormalSum(vertices \ {i})
       IN  <<At(normals, i)[1] + rest[1], At(normals, i)[2] + rest[2],
             At(normals, i)[3] + rest[3]>>

RECURSIVE CountSum(_)
CountSum(keys) ==
  IF keys = {} THEN 0
  ELSE LET k == CHOOSE k \in keys : TRUE IN v_counts[k] + CountSum(keys \ {k})

\* Three raw vertices at one position with normals (1,0,0), (0,1,0), (0,0,1).
CornerOfThree ==
  /\ Len(coords) = 3
  /\ coords[1] = coords[2] /\ coords[2] = coords[3]
  /\ normals = << <<S, 0, 0>>, <<0, S, 0>>, <<0, 0, S>> >>

\* C5: after welding every raw vertex is in exactly one group, the one of
\* its position rounded to 4 decimals; a group's count is the number of its
\* raw vertices (at least 1, and the counts add up to the number of raw
\* vertices) and its normal is the sum of theirs; three raw vertices at one
\* position with the three axis normals are one group with sum (1,1,1) and
\* count 3.
C5_WeldGroups ==
  Welded =>
    /\ DOMAIN v_normals = DOMAIN v_counts
    /\ \A i \in RawVertices : Cardinality({k \in DOMAIN v_counts : i \in Members(k)}) = 1
    /\ \A k \in DOMAIN v_counts :
         /\ v_counts[k] = Cardinality(Members(k))
         /\ v_counts[k] >= 1
         /\ v_normals[k] = NormalSum(Members(k))
    /\ CountSum(DOMAIN v_counts) = Len(coords)
    /\ CornerOfThree =>
         /\ Len(pos_list) = 1
         /\ v_normals[pos_list[1]] = <<S, S, S>>
         /\ v_counts[pos_list[1]] = 3

\* C5 witness: the three vertices of the example, at a position that is not
\* its own rounding, have been welded.
C5_Witness ==
  /\ Welded
  /\ CornerOfThree
  /\ coords[1] = <<4, -4, 0>>
  /\ pos_list = << <<0, 0, 0>> >>

\* C6 as stated: the adjacency is symmetric and no group is its own
\* neighbour.
C6_SimpleGraph ==
  \A i \in DOMAIN adj_list :
    /\ i \notin adj_list[i]
    /\ \A j \in adj_list[i] : i \in adj_list[j]

Gap(s) == s[1] - s[0]
OnStrip == adj_list = StripNeighbors /\ smoothness # <<>> /\ smoothness[1] = StripSmoothness

\* C7: on the strip 0-1-2-3-4 starting from 0.577 at vertex 0 and 1.0
\* elsewhere the gap between vertices 1 and 0 is above 0.4 at first and
\* below 0.2 after the three passes, when vertex 1 is below 0.95 and
\* vertex 2 below 0.99.
C7_StripGradient ==
  OnStrip =>
    /\ Gap(smoothness[1]) > 4000
    /\ Len(smoothness) = passes + 1 =>
         /\ Gap(smoothness[passes + 1]) < 2000
         /\ smoothness[passes + 1][1] < 9500
         /\ smoothness[passes + 1][2] < 9900

\* C7 witness: the three passes have been made on that strip.
C7_Witness == OnStrip /\ Len(smoothness) = passes + 1

Least(s) == CHOOSE v \in {s[i] : i \in DOMAIN s} : \A i \in DOMAIN s : v <= s[i]
Greatest(s) == CHOOSE v \in {s[i] : i \in DOMAIN s} : \A i \in DOMAIN s : v >= s[i]

\* C8: with unit input normals every weld group's first smoothness is in
\* [0, 1], and after each pass every group's value lies between the least
\* and the greatest value at the start of that pass.
C8_SmoothnessRange ==
  /\ (coords # <<>> /\ smoothness # <<>>) =>
       \A g \in DOMAIN smoothness[1] : smoothness[1][g] >= 0 /\ smoothness[1][g] <= S
  /\ \A n \in 2 .. Len(smoothness) :
       \A g \in DOMAIN smoothness[n] :
         /\ smoothness[n][g] >= Least(smoothness[n - 1])
         /\ smoothness[n][g] <= Greatest(smoothness[n - 1])

\* C8 witness: a welded mesh with a group of opposing normals (0) next to a
\* group of one normal (1) has gone through the three passes, which changed
\* the field each time it was not yet level.
C8_Witness ==
  /\ coords # <<>>
  /\ Len(smoothness) = passes + 1
  /\ \E g \in DOMAIN smoothness[1] : smoothness[1][g] = 0
  /\ \E g \in DOMAIN smoothness[1] : smoothness[1][g] = S
  /\ smoothness[2] # smoothness[1]

(***************************************************************************)
(* Properties of the execute handler.                                      *)
(***************************************************************************)
Mesh == [coords |-> coords, normals |-> normals, indices |-> indices]
HasDisplaced == stage = "done"

\* What the handler computes for each command and mesh when the cache is
\* empty at its first noise evaluation.
Replayable ==
  {<<cmd, mesh>> \in Commands \X UNION {Tessellate(e) : e \in {"face", "body"}} :
     mesh \in Tessellate(cmd.selection) /\ ~BadIndices(mesh.coords, mesh.indices)}

FromEmpty ==
  Tabled([x \in Replayable |->
            DisplaceFrom(Graph(x[2]), Inputs(x[1]), 0,
                         [cache |-> <<>>, rng |-> Unseeded,
                          new_coords |-> <<>>, vals |-> <<>>])])

Reproduces(d) ==
  /\ new_coords = d.new_coords
  /\ vals = d.vals
  /\ voronoi_points = d.cache

\* C2: whatever invocations came before, with whatever variance or density,
\* an invocation that displaces its mesh produces the noise values and the
\* coordinates, and leaves the cache, that its command and mesh produce from
\* an empty cache, so that two invocations with the same mesh and parameters
\* produce the same coordinates; every entry left is of this invocation's
\* own variance.
C2_NoLeak ==
  HasDisplaced =>
    /\ Reproduces(FromEmpty[<<command, Mesh>>])
    /\ \A c \in DOMAIN voronoi_points :
         voronoi_points[c] = NewPoint(c, command.variance).point

\* C2 witness: an invocation has displaced a mesh after an earlier one had
\* filled the cache with points of another variance.
C2_Witness ==
  /\ HasDisplaced
  /\ runs = 2
  /\ coords # <<>>
  /\ entry_vars # {}
  /\ command.variance \notin entry_vars

GroupOf(i) == pos_idx_map(pos_list)[PosKey(coords, i)]
NormalOf(i) == v_normals[PosKey(coords, i)]
FinalSmoothness(i) == smoothness[Len(smoothness)][GroupOf(i)]
FirstSmoothness(i) == smoothness[1][GroupOf(i)]
Fourth(s) == Mul(Mul(s, s), Mul(s, s))
Bias == IF command.selection = "face" THEN 200 ELSE 0
Offset(i) == Mul(Mul(vals[i + 1], command.height), Fourth(FinalSmoothness(i))) + Bias
Shift(i) == <<At(new_coords, i)[1] - At(coords, i)[1],
              At(new_coords, i)[2] - At(coords, i)[2],
              At(new_coords, i)[3] - At(coords, i)[3]>>
Along(n, offset) == <<(n[1] * offset) \div 1000, (n[2] * offset) \div 1000,
                      (n[3] * offset) \div 1000>>
Unit(sum) == <<(sum[1] * S) \div Magnitude(sum), (sum[2] * S) \div Magnitude(sum),
               (sum[3] * S) \div Magnitude(sum)>>
SameKey(i) == {j \in RawVertices : PosKey(coords, j) = PosKey(coords, i)}
Dot(a, b) == a[1] * b[1] + a[2] * b[2] + a[3] * b[3]
\* A group of three raw vertices with pairwise orthogonal normals.
IsCorner(i) ==
  /\ Cardinality(SameKey(i)) = 3
  /\ \A j, k \in SameKey(i) : j # k => Dot(At(normals, j), At(normals, k)) = 0
\* A group whose raw vertices all have the same normal.
IsFlat(i) == \A j \in SameKey(i) : At(normals, j) = At(normals, i)

FlatQuadRun ==
  /\ HasDisplaced
  /\ Len(coords) = 4
  /\ Len(indices) = 6
  /\ \A i \in RawVertices : At(normals, i) = <<0, 0, S>>
  /\ command.height = 5000 /\ command.density = 15000 /\ command.variance = 4000

\* C10 as stated: every vertex of the flat quad keeps x and y, moves in +z,
\* and by at most height.
C10_AsStated ==
  FlatQuadRun =>
    \A i \in RawVertices :
      /\ Shift(i)[1] = 0 /\ Shift(i)[2] = 0
      /\ Shift(i)[3] >= 0
      /\ Shift(i)[3] <= 10 * command.height

\* C10 amended: every vertex of the flat quad keeps x and y and moves in +z
\* by noise * height (the attenuation is 1), plus 0.02 when a face was
\* selected; the noise is not bounded by 1, so the move can exceed height;
\* it stays below 4 * height + 0.02.
C10_FlatQuad ==
  FlatQuadRun =>
    \A i \in RawVertices :
      /\ Shift(i)[1] = 0 /\ Shift(i)[2] = 0
      /\ Shift(i)[3] >= 0
      /\ Shift(i)[3] = 10 * (Mul(vals[i + 1], command.height) + Bias)
      /\ Shift(i)[3] <= 10 * (4 * command.height + Bias)

\* C10 witness: the flat quad has been displaced with a vertex moved by more
\* than height and another by less.
C10_Witness ==
  /\ FlatQuadRun
  /\ \E i \in RawVertices : Shift(i)[3] > 10 * command.height
  /\ \E i \in RawVertices : Shift(i)[3] < 10 * command.height

(***************************************************************************)
(* Properties of the file the handler writes.                              *)
(***************************************************************************)
Triangles == Len(indices) \div 3

\* x / 2^k rounded down; singles of 2^13 and more, which no coordinate
\* comes near, are not scaled up.
RECURSIVE Halved(_, _)
Halved(x, k) == IF k <= 0 THEN x ELSE Halved(x \div 2, k - 1)

\* The magnitude, in units of 1/CU and rounded down by less than 2, of the
\* single whose four bytes start after the first `at` bytes of the file.
SingleAt(at) ==
  LET exponent == (stl[at + 4] % 128) * 2 + stl[at + 3] \div 128
      fraction == (stl[at + 3] % 128) * 65536 + stl[at + 2] * 256 + stl[at + 1]
      significand == 8388608 + fraction
  IN  IF exponent = 0 THEN 0
      ELSE Halved((significand \div 1024) * CU, 13 - (exponent - 127))
           + Halved((significand % 1024) * CU, 23 - (exponent - 127))

Negative(at) == stl[at + 4] >= 128

\* The four bytes after the first `at` hold the coordinate c.
Holds(at, c) ==
  /\ Abs(c) - SingleAt(at) \in 0 .. 2
  /\ c > 0 => ~Negative(at)
  /\ c < 0 => Negative(at)

\* The record of triangle t is 12 zero bytes, the displaced positions of
\* its corners in index order, and 2 zero bytes.
RecordOf(t) ==
  LET base == 84 + 50 * t
  IN  /\ \A n \in 1 .. 12 : stl[base + n] = 0
      /\ \A j \in 0 .. 2 : \A a \in 1 .. 3 :
           Holds(base + 12 + 12 * j + 4 * (a - 1),
                 At(new_coords, At(indices, 3 * t + j))[a])
      /\ stl[base + 49] = 0 /\ stl[base + 50] = 0

\* C11: after an invocation that got through its index buffer, the file is
\* 84 + 50 * T bytes for the T triangles of the buffer the mesh calculator
\* returned: 80 header bytes, T as a little-endian 32-bit count, and per
\* triangle 12 zero bytes, the three corners' displaced positions as
\* little-endian singles in index order, and 2 zero bytes.
C11_StlLayout ==
  HasDisplaced =>
    /\ Mesh \in Tessellate(command.selection)
    /\ Len(indices) = 3 * Triangles
    /\ Len(stl) = 84 + 50 * Triangles
    /\ \A n \in 1 .. 80 : stl[n] = 0
    /\ stl[81] + 256 * stl[82] + 65536 * stl[83] + 16777216 * stl[84] = Triangles
    /\ \A t \in 0 .. Triangles - 1 : RecordOf(t)

\* C11 witness: a file of three triangles, 234 bytes, has been written, not
\* all of them zero.
C11_Witness ==
  /\ HasDisplaced
  /\ Triangles = 3
  /\ Len(stl) = 234
  /\ \E n \in 1 .. Len(stl) : stl[n] # 0

(***************************************************************************)
(* Properties of the handler's failures.  Every step of SpecExec is one    *)
(* invocation: the unprimed variables are the state it found, the primed   *)
(* ones the state it left.                                                 *)
(***************************************************************************)
\* The invocation ended in the except branch.
Failed == message'

\* C12 as stated: an invocation whose mesh has no vertices and no indices
\* reports an error, writes no file, adds no mesh body and does not mark
\* the result valid.
C12_EmptyMeshFatal ==
  [][(coords' = <<>> /\ indices' = <<>>) =>
       /\ Failed
       /\ stl' = <<>>
       /\ mesh_bodies' = mesh_bodies
       /\ ~is_valid_result']_vars

\* C13 as stated: an invocation that wrote its file and got no mesh body
\* from the importer reports a failure and does not mark the result valid.
C13_RejectedImportReported ==
  [][(stage' = "done" /\ mesh_bodies' = mesh_bodies) =>
       /\ Failed
       /\ ~is_valid_result']_vars

\* C14 as stated: a failed invocation leaves the body's visibility, the
\* temporary files and the mesh bodies as it found them and does not mark
\* the result valid.
C14_FailureLeavesNothing ==
  [][Failed =>
       /\ visible' = visible
       /\ tmp_files' = tmp_files
       /\ mesh_bodies' = mesh_bodies
       /\ ~is_valid_result']_vars

(***************************************************************************)
(* Properties of the diffusion passes.                                     *)
(***************************************************************************)
Groups == DOMAIN adj_list

\* The sum of the values of a set of groups, smallest id first.
RECURSIVE Total(_, _)
Total(values, ids) ==
  IF ids = {} THEN 0
  ELSE LET least == CHOOSE n \in ids : \A o \in ids : n <= o
       IN  values[least] + Total(values, ids \ {least})

\* The values after pass k, from the values at its start alone.
FromPassStart(k) ==
  \A i \in Groups :
    smoothness[k + 1][i] =
      IF adj_list[i] = {} THEN smoothness[k][i]
      ELSE (smoothness[k][i] + Total(smoothness[k], adj_list[i]))
             \div (1 + Cardinality(adj_list[i]))

FeaturePoint(c, variance) ==
  IF c \in DOMAIN voronoi_points THEN voronoi_points[c]
  ELSE NewPoint(c, variance).point

LastCell == <<Floor(LastPoint[1]), Floor(LastPoint[2]), Floor(LastPoint[3])>>

\* The cells of the whole lattice whose lobe covers the last scaled point.
\* A lobe covers no point that is a radius or more away on one axis.
Reaches(p, q) ==
  /\ \A a \in 1 .. 3 : Abs(q[a] - p[a]) < p[5]
  /\ Covers(p, q[1], q[2], q[3])

ReachedFrom(q, variance) == {c \in Lattice : Reaches(FeaturePoint(c, variance), q)}
CoveringAnywhere == ReachedFrom(LastPoint, Args.variance)

Apart(c, d) == Max(Max(Abs(c[1] - d[1]), Abs(c[2] - d[2])), Abs(c[3] - d[3]))

\* Jitter in [0, 1) on each axis and a radius factor in [1.1, 1.6).
InItsCell(p, c) ==
  /\ \A a \in 1 .. 3 : p[a] - c[a] * S \in 0 .. S - 1
  /\ p[5] \in 11000 .. 15999

NoneMissed(covering, cell) ==
  /\ \A c \in covering : Apart(c, cell) <= 2
  /\ covering \subseteq LastWindow
  /\ LastWindow \subseteq DOMAIN voronoi_points
  /\ noise_val = MergeOver(covering, LastPoint, 0)

\* C16: after a call, every cell of the lattice whose feature point covers
\* the scaled query point is at most 2 cells from the query's cell on each
\* axis and was visited by the scan, the jitter of every cached feature point
\* is in [0, 1) and its radius factor in [1.1, 1.6), and the value returned is
\* the merge over all covering cells of the lattice.
C16_WindowCoversLobes ==
  Answered =>
    /\ \A c \in DOMAIN voronoi_points : InItsCell(voronoi_points[c], c)
    /\ NoneMissed(CoveringAnywhere, LastCell)

\* C16 witness: a call has returned for a point covered by a lobe two cells
\* away, with cells of the lattice outside its window.
C16_Witness ==
  /\ Answered
  /\ \E c \in CoveringAnywhere : Apart(c, LastCell) = 2
  /\ \E c \in Lattice : Apart(c, LastCell) > 3

\* The height of the lobe of cell c over the last scaled point, written
\* out: t * t * h_f with t = 1 - d2.
Contribution(c) ==
  LET p == voronoi_points[c]
      t == S - (Dist2(p, LastPoint[1], LastPoint[2], LastPoint[3]) * S) \div Sq(p[5])
  IN  Mul(Mul(t, t), p[4])

Identity(x) == pmax(x, 0, 6) = x /\ pmax(0, x, 6) = x

Duplicates(i, j) == i # j /\ At(coords, i) = At(coords, j)

\* C18: after an invocation has displaced its mesh, any two raw vertices
\* with the same coordinates have the same new coordinates, whatever their
\* own normals and their places in the vertex buffer.
C18_DuplicatesMoveTogether ==
  HasDisplaced =>
    \A i, j \in RawVertices :
      Duplicates(i, j) => At(new_coords, i) = At(new_coords, j)

\* C18 witness: two raw vertices with the same coordinates and different
\* normals have been moved.
C18_Witness ==
  /\ HasDisplaced
  /\ \E i, j \in RawVertices :
       /\ Duplicates(i, j)
       /\ At(normals, i) # At(normals, j)
       /\ At(new_coords, i) # At(coords, i)

Spec == SpecNoise
====
